---------------------------- MODULE Spec2Model ----------------------------
(***************************************************************************)
(* Model of the expense dashboard: the encoding-resilient CSV reader and   *)
(* load_expense_csv of utils/file_loader.py, and the pipeline of main() in *)
(* app.py (column guessing, coercion, row dropping, month derivation,      *)
(* classification, aggregation).                                           *)
(*                                                                         *)
(* Text is modelled as a sequence of characters; a character is a one      *)
(* letter string for ASCII and a romanised syllable for Hangul, so that    *)
(* lower-casing and substring containment are computed, not assumed.       *)
(***************************************************************************)
EXTENDS Integers, Sequences, FiniteSets, TLC

VARIABLES
    \* _read_csv_with_multiple_encodings
    file,          \* the uploaded file object: its bytes and its read position
    dpc,           \* position in the function: "loop" | "done"
    enc_i,         \* index of the loop variable enc in encodings_to_try
    last_error,    \* the local last_error
    attempts,      \* history: the read_csv calls made, in order
    dresult,       \* what the function returned or raised
    \* guess_col
    columns,       \* list(df.columns)
    role,          \* which selectbox default is being computed
    guessed,       \* the value guess_col returned
    \* main() and load_expense_csv (locals of the same names)
    pc,            \* position in the function
    uploaded_file, \* what the caller hands in
    ui,            \* what the user enters in the sidebar widgets
    df,            \* the table as read
    date_col, amount_col, desc_col, manual_format,
    df_processed,  \* main: the working copy; load_expense_csv: the returned table
    message,       \* the st.info / st.error shown, or the exception raised
    \* the summary report of main()
    total_spent, monthly_stats, category_stats, avg_monthly, pivot

decVars == <<file, dpc, enc_i, last_error, attempts, dresult>>
resVars == <<columns, role, guessed>>
selVars == <<date_col, amount_col, desc_col, manual_format>>
repVars == <<total_spent, monthly_stats, category_stats, avg_monthly, pivot>>
mainVars == <<pc, uploaded_file, ui, df, selVars, df_processed, message, repVars>>
vars == <<decVars, resVars, mainVars>>

----------------------------------------------------------------------------
(* Bounds *)

MaxBytes == 3
MaxCols == 3
MaxRows == 2
MaxRecords == 3
MaxLoadRows == 2

----------------------------------------------------------------------------
(* Generic helpers *)

RECURSIVE SeqsUpTo(_, _)
SeqsUpTo(S, n) ==
    IF n = 0 THEN {<<>>}
    ELSE LET shorter == SeqsUpTo(S, n - 1)
         IN  shorter \cup {Append(s, x) : s \in {t \in shorter : Len(t) = n - 1}, x \in S}

----------------------------------------------------------------------------
(* file_loader.py: _read_csv_with_multiple_encodings *)

encodings_to_try == <<"utf-8", "utf-8-sig", "cp949", "euc-kr">>

\* The bytes of a file, by what the four codecs make of them:
\*   asc  an ASCII byte                       (every candidate decodes it)
\*   u8   a UTF-8 multi-byte character        (utf-8 and utf-8-sig only)
\*   kr   a KS X 1001 double-byte character   (cp949 and euc-kr)
\*   ext  a cp949 extension character         (cp949 only)
\*   bad  a byte no candidate decodes (0xFF)
ByteClass == {"asc", "u8", "kr", "ext", "bad"}

DecodableBy(b) ==
    CASE b = "asc" -> {"utf-8", "utf-8-sig", "cp949", "euc-kr"}
      [] b = "u8"  -> {"utf-8", "utf-8-sig"}
      [] b = "kr"  -> {"cp949", "euc-kr"}
      [] b = "ext" -> {"cp949"}
      [] OTHER     -> {}

NoError == [encoding |-> "None", position |-> 0]
NoTable == [encoding |-> "None", text |-> <<>>]

\* file.seek(0)
seek_not(f) == f
seek0(f) == [f EXCEPT !.pos = 0]

\* The bytes pd.read_csv has left to read: from the file's position on.
Unread(f) == SubSeq(f.bytes, f.pos + 1, Len(f.bytes))

\* Index in f.bytes of the first unread byte enc cannot decode, 0 if none.
FirstUndecodable(f, enc) ==
    LET bad == {i \in (f.pos + 1)..Len(f.bytes) : enc \notin DecodableBy(f.bytes[i])}
    IN  IF bad = {} THEN 0 ELSE CHOOSE i \in bad : \A j \in bad : i <= j

\* Outcome of pd.read_csv(file, encoding=enc): which exception, if any.
read_csv_outcome(f, enc) ==
    IF FirstUndecodable(f, enc) # 0 THEN "UnicodeDecodeError"
    ELSE IF Unread(f) = <<>> THEN "EmptyDataError"
    ELSE "ok"

\* The table pd.read_csv returns: the unread bytes decoded under enc.
read_csv_table(f, enc) == [encoding |-> enc, text |-> Unread(f)]

\* except UnicodeDecodeError as e: last_error = e
KeepFirstError(last, e) == IF last = NoError THEN e ELSE last
RecordError(last, e) == e

\* One pass of the loop body whose read_csv succeeds: return df.
AttemptOk ==
    /\ dpc = "loop" /\ enc_i <= Len(encodings_to_try)
    /\ LET enc == encodings_to_try[enc_i]
           f   == seek0(file)
       IN  /\ read_csv_outcome(f, enc) = "ok"
           /\ attempts' = Append(attempts, [encoding |-> enc, start |-> f.pos])
           /\ file' = [f EXCEPT !.pos = Len(f.bytes)]
           /\ dresult' = [kind |-> "df", df |-> read_csv_table(f, enc), last |-> NoError]
           /\ dpc' = "done"
    /\ UNCHANGED <<enc_i, last_error, resVars, mainVars>>

\* One pass whose read_csv raises UnicodeDecodeError: remember it, continue.
\* The reader has consumed the file at least up to the offending byte.
AttemptDecodeError ==
    /\ dpc = "loop" /\ enc_i <= Len(encodings_to_try)
    /\ LET enc == encodings_to_try[enc_i]
           f   == seek0(file)
       IN  /\ read_csv_outcome(f, enc) = "UnicodeDecodeError"
           /\ attempts' = Append(attempts, [encoding |-> enc, start |-> f.pos])
           /\ \E p \in FirstUndecodable(f, enc)..Len(f.bytes) :
                  file' = [f EXCEPT !.pos = p]
           /\ last_error' = RecordError(last_error,
                  [encoding |-> enc, position |-> FirstUndecodable(f, enc)])
           /\ enc_i' = enc_i + 1
    /\ UNCHANGED <<dpc, dresult, resVars, mainVars>>

\* One pass whose read_csv raises something else (nothing to parse): the
\* except clause does not catch it and it leaves the function.
AttemptOtherError ==
    /\ dpc = "loop" /\ enc_i <= Len(encodings_to_try)
    /\ LET enc == encodings_to_try[enc_i]
           f   == seek0(file)
       IN  /\ read_csv_outcome(f, enc) = "EmptyDataError"
           /\ attempts' = Append(attempts, [encoding |-> enc, start |-> f.pos])
           /\ file' = [f EXCEPT !.pos = Len(f.bytes)]
           /\ dresult' = [kind |-> "EmptyDataError", df |-> NoTable, last |-> NoError]
           /\ dpc' = "done"
    /\ UNCHANGED <<enc_i, last_error, resVars, mainVars>>

\* The loop ran out of candidates: raise UnicodeDecodeError(... last_error).
RaiseAllFailed ==
    /\ dpc = "loop" /\ enc_i > Len(encodings_to_try)
    /\ dresult' = [kind |-> "UnicodeDecodeError", df |-> NoTable, last |-> last_error]
    /\ dpc' = "done"
    /\ UNCHANGED <<file, enc_i, last_error, attempts, resVars, mainVars>>

----------------------------------------------------------------------------
(* Column names and keywords, as character sequences *)

n_Date      == <<"D", "a", "t", "e">>
n_date      == <<"d", "a", "t", "e">>
n_amount    == <<"a", "m", "o", "u", "n", "t">>
n_Expense   == <<"E", "x", "p", "e", "n", "s", "e">>
n_expense   == <<"e", "x", "p", "e", "n", "s", "e">>
n_price     == <<"p", "r", "i", "c", "e">>
n_memo      == <<"m", "e", "m", "o">>
n_desc      == <<"d", "e", "s", "c">>
n_description == <<"d", "e", "s", "c", "r", "i", "p", "t", "i", "o", "n">>
k_naljja    == <<"nal", "jja">>                 \* 날짜
k_ilja      == <<"il", "ja">>                   \* 일자
k_georaeilja == <<"geo", "rae", "il", "ja">>    \* 거래일자
k_geumaek   == <<"geum", "aek">>                \* 금액
k_jichul    == <<"ji", "chul">>                 \* 지출
k_memo      == <<"me", "mo">>                   \* 메모
k_naeyong   == <<"nae", "yong">>                \* 내용
k_sangse    == <<"sang", "se">>                 \* 상세
k_naeyeok   == <<"nae", "yeok">>                \* 내역

Range(s) == {s[i] : i \in 1..Len(s)}

\* str.lower() on one character: only cased letters change.
LowerChar(c) ==
    CASE c = "D" -> "d"
      [] c = "E" -> "e"
      [] c = "S" -> "s"
      [] c = "T" -> "t"
      [] c = "A" -> "a"
      [] c = "R" -> "r"
      [] c = "B" -> "b"
      [] c = "U" -> "u"
      [] c = "C" -> "c"
      [] c = "K" -> "k"
      [] c = "L" -> "l"
      [] OTHER   -> c

\* str(c).lower()
lower(s) == [i \in 1..Len(s) |-> LowerChar(s[i])]

\* keyword in lc: substring containment
Contains(keyword, lc) ==
    \E k \in 0..(Len(lc) - Len(keyword)) :
        SubSeq(lc, k + 1, k + Len(keyword)) = keyword

----------------------------------------------------------------------------
(* app.py: guess_col, and the candidate lists of the three selectboxes *)

Roles == {"date", "amount", "description"}

RoleCandidates(r) ==
    CASE r = "date"   -> <<n_date, k_naljja, k_ilja>>
      [] r = "amount" -> <<n_amount, k_geumaek, k_jichul, n_expense>>
      [] OTHER        -> <<n_desc, k_memo, k_naeyong, k_sangse, k_naeyeok>>

\* any(keyword in lc for keyword in candidates)
AnyKeywordIn(candidates, c) ==
    \E n \in 1..Len(candidates) : Contains(candidates[n], lower(c))

\* for c in columns: ... return c        (from the i-th column on)
\* return columns[0]
RECURSIVE guess_from(_, _, _)
guess_from(cols, candidates, i) ==
    IF i > Len(cols) THEN cols[1]
    ELSE IF AnyKeywordIn(candidates, cols[i]) THEN cols[i]
    ELSE guess_from(cols, candidates, i + 1)

\* A resolver that ranks by candidate order instead of column order.
RECURSIVE guess_by_candidate(_, _, _)
guess_by_candidate(cols, candidates, n) ==
    IF n > Len(candidates) THEN cols[1]
    ELSE LET hit == {i \in 1..Len(cols) : Contains(candidates[n], lower(cols[i]))}
         IN  IF hit # {} THEN cols[CHOOSE i \in hit : \A j \in hit : i <= j]
             ELSE guess_by_candidate(cols, candidates, n + 1)
guess_col_ranked(cols, candidates) == guess_by_candidate(cols, candidates, 1)

guess_col(cols, candidates) == guess_from(cols, candidates, 1)

ColumnPool ==
    {n_Date, k_ilja, k_georaeilja, k_geumaek, k_naeyong, n_Expense, n_memo, n_price}

Distinct(s) == \A i, j \in 1..Len(s) : i # j => s[i] # s[j]

\* The default of one selectbox is computed.
GuessCol ==
    /\ role \in Roles /\ guessed = <<>>
    /\ guessed' = guess_col(columns, RoleCandidates(role))
    /\ UNCHANGED <<columns, role, decVars, mainVars>>

----------------------------------------------------------------------------
(* Tables (pandas DataFrame) and cell values *)

\* A cell: t is its kind.
\*   str      a string that is neither a number nor a date (s: its characters)
\*   isodate  a string of the form YYYY-MM-DD
\*   num      a number (n)
\*   nan      a missing value (an empty cell)
\*   ts       a Timestamp (y, m, d)
\*   nat      the missing Timestamp
Cell(t, y, m, d, n, s) == [t |-> t, y |-> y, m |-> m, d |-> d, n |-> n, s |-> s]
Text(s)          == Cell("str", 0, 0, 0, 0, s)
IsoText(y, m, d) == Cell("isodate", y, m, d, 0, <<>>)
Num(n)           == Cell("num", 0, 0, 0, n, <<>>)
NaN              == Cell("nan", 0, 0, 0, 0, <<>>)
Ts(y, m, d)      == Cell("ts", y, m, d, 0, <<>>)
NaT              == Cell("nat", 0, 0, 0, 0, <<>>)

\* pandas isna
isna(c) == c.t \in {"nan", "nat"}

\* A DataFrame: column labels, the row labels (index) and the rows' cells in
\* column order.  none marks Python's None in place of a DataFrame.
Frame(cols, index, rows) == [none |-> FALSE, columns |-> cols, index |-> index, rows |-> rows]
None == [none |-> TRUE, columns |-> <<>>, index |-> <<>>, rows |-> <<>>]

\* df.empty
empty(fr) == Len(fr.columns) = 0 \/ Len(fr.rows) = 0

HasColumn(fr, name) == \E i \in 1..Len(fr.columns) : fr.columns[i] = name
ColIndex(fr, name) == CHOOSE i \in 1..Len(fr.columns) : fr.columns[i] = name

\* df[name]
Column(fr, name) == [r \in 1..Len(fr.rows) |-> fr.rows[r][ColIndex(fr, name)]]

\* df[name] = values: replaces the column of that label, or appends a new one.
SetColumn(fr, name, values) ==
    IF HasColumn(fr, name)
    THEN [fr EXCEPT !.rows = [r \in 1..Len(fr.rows) |->
                                 [fr.rows[r] EXCEPT ![ColIndex(fr, name)] = values[r]]]]
    ELSE [fr EXCEPT !.columns = Append(fr.columns, name),
                    !.rows = [r \in 1..Len(fr.rows) |-> Append(fr.rows[r], values[r])]]

\* The numbers of S in ascending order.
RECURSIVE Ascending(_)
Ascending(S) ==
    IF S = {} THEN <<>>
    ELSE LET lo == CHOOSE x \in S : \A y \in S : x <= y
         IN  <<lo>> \o Ascending(S \ {lo})

\* df.dropna(subset=names): the rows with no missing value in those columns,
\* in order, under their labels.
dropna(fr, names) ==
    LET kept == Ascending({r \in 1..Len(fr.rows) :
                               \A nm \in names : ~isna(fr.rows[r][ColIndex(fr, nm)])})
    IN  [fr EXCEPT !.index = [k \in 1..Len(kept) |-> fr.index[kept[k]]],
                   !.rows  = [k \in 1..Len(kept) |-> fr.rows[kept[k]]]]

\* The column read_csv inferred as numeric: numbers and empty cells only.
NumericColumn(values) == \A r \in 1..Len(values) : values[r].t \in {"num", "nan"}

\* pd.to_datetime(values, format=fmt, errors="coerce"); fmt = "" is automatic
\* parsing.  A YYYY-MM-DD string parses automatically and under %Y-%m-%d; a
\* numeric column parses automatically as nanoseconds since the epoch; all
\* else becomes NaT.
to_datetime(values, fmt) ==
    [r \in 1..Len(values) |->
        LET c == values[r]
        IN  CASE c.t = "ts" -> c
              [] c.t = "isodate" /\ fmt \in {"", "%Y-%m-%d"} -> Ts(c.y, c.m, c.d)
              [] c.t = "num" /\ fmt = "" /\ NumericColumn(values) ->
                     IF c.n >= 0 THEN Ts(1970, 1, 1) ELSE Ts(1969, 12, 31)
              [] OTHER -> NaT]

\* The int64 a datetime64 value is viewed as (nanoseconds since the epoch,
\* here on a scale of days of a 31-day month so that sums stay small).
DatetimeAsInt64(c) ==
    IF c.t = "nat" THEN -2147483647
    ELSE (c.y - 1970) * 372 + (c.m - 1) * 31 + (c.d - 1)

\* pd.to_numeric(values, errors="coerce"): a number stays, a datetime value
\* is viewed as its int64, all else becomes NaN.
to_numeric(values) ==
    [r \in 1..Len(values) |->
        LET c == values[r]
        IN  CASE c.t = "num" -> c
              [] c.t \in {"ts", "nat"} -> Num(DatetimeAsInt64(c))
              [] OTHER -> NaN]

----------------------------------------------------------------------------
(* app.py: main(), up to the valid-data check *)

n_month    == <<"m", "o", "n", "t", "h">>
n_category == <<"c", "a", "t", "e", "g", "o", "r", "y">>

\* What st.info / st.error shows, or the exception raised with the names it lists.
Msg(kind) == [kind |-> kind, names |-> <<>>]
NoMessage == Msg("none")

\* The widget was left as it came up.
UseDefault == <<>>

\* st.sidebar.selectbox(options=columns, index=columns.index(default))
selectbox(default, choice) == IF choice = UseDefault THEN default ELSE choice

\* str.strip() of the format box
strip(f) == IF f = " " THEN "" ELSE f

\* utils.file_loader.load_csv_file: the decoded table, None when no candidate
\* encoding decodes the file.
load_csv_file(u) == IF u.kind = "csv" THEN u.df ELSE None

\* if uploaded_file is None: st.info(...); return
FileMissing ==
    /\ pc = "start" /\ uploaded_file.kind = "none"
    /\ message' = Msg("info_upload_csv")
    /\ pc' = "returned"
    /\ UNCHANGED <<uploaded_file, ui, df, selVars, df_processed, repVars, columns, role, guessed, decVars>>

\* if df is None or df.empty: st.error(load failed); return
LoadFailed ==
    /\ pc = "start" /\ uploaded_file.kind # "none"
    /\ LET d == load_csv_file(uploaded_file)
       IN  /\ d.none \/ empty(d)
           /\ df' = d
    /\ message' = Msg("error_csv_not_loaded")
    /\ pc' = "returned"
    /\ UNCHANGED <<uploaded_file, ui, selVars, df_processed, repVars, columns, role, guessed, decVars>>

\* The table is loaded and not empty; the three selectboxes come up with the
\* guessed defaults and the user leaves or changes them; the format is entered.
SelectColumns ==
    /\ pc = "start" /\ uploaded_file.kind # "none"
    /\ LET d == load_csv_file(uploaded_file)
       IN  /\ ~(d.none \/ empty(d))
           /\ df' = d
           /\ columns' = d.columns
           /\ date_col' = selectbox(guess_col(d.columns, RoleCandidates("date")), ui.date_col)
           /\ amount_col' = selectbox(guess_col(d.columns, RoleCandidates("amount")), ui.amount_col)
           /\ desc_col' = selectbox(guess_col(d.columns, RoleCandidates("description")), ui.desc_col)
    /\ manual_format' = ui.manual_format
    /\ pc' = "selected"
    /\ UNCHANGED <<uploaded_file, ui, df_processed, message, repVars, role, guessed, decVars>>

\* df_processed = df.copy(); the date column is written, then the amount
\* column is read from df_processed and written; rows missing either go.
converted(d, dc, ac, fmt) ==
    LET p1 == SetColumn(d, n_date, to_datetime(Column(d, dc), strip(fmt)))
        p2 == SetColumn(p1, n_amount, to_numeric(Column(p1, ac)))
    IN  dropna(p2, {n_date, n_amount})

\* if df_processed.empty: st.error(no valid data); return
NormalizeEmpty ==
    /\ pc = "selected"
    /\ df_processed' = converted(df, date_col, amount_col, manual_format)
    /\ empty(df_processed')
    /\ message' = Msg("error_no_valid_data")
    /\ pc' = "returned"
    /\ UNCHANGED <<uploaded_file, ui, df, selVars, repVars, columns, role, guessed, decVars>>

NormalizeOk ==
    /\ pc = "selected"
    /\ df_processed' = converted(df, date_col, amount_col, manual_format)
    /\ ~empty(df_processed')
    /\ pc' = "normalized"
    /\ UNCHANGED <<uploaded_file, ui, df, selVars, message, repVars, columns, role, guessed, decVars>>

----------------------------------------------------------------------------
(* app.py: main(), month derivation, classification and the report *)

\* .dt.to_period("M").dt.to_timestamp(): the first day of the date's month
month_of_year_only(c) == Ts(0, c.m, 1)
to_month_start(c) == Ts(c.y, c.m, 1)

\* df_processed["month"] = ...
DeriveMonth ==
    /\ pc = "normalized"
    /\ df_processed' = SetColumn(df_processed, n_month,
           [r \in 1..Len(df_processed.rows) |->
               to_month_start(Column(df_processed, n_date)[r])])
    /\ pc' = "month"
    /\ UNCHANGED <<uploaded_file, ui, df, selVars, message, repVars, columns, role, guessed, decVars>>

\* utils.category_mapper: the keyword rules in their configured order and the
\* fallback category.
rules ==
    << [keyword |-> <<"S", "T", "A", "R", "B", "U", "C", "K", "S">>, category |-> "Food"],
       [keyword |-> <<"B", "U", "C", "K">>, category |-> "Shopping"] >>
fallback_category == "uncategorized"

rule_matches(rule, description) ==
    /\ description.t = "str"
    /\ Contains(lower(rule.keyword), lower(description.s))

RECURSIVE first_match(_, _, _)
first_match(description, rs, n) ==
    IF n > Len(rs) THEN fallback_category
    ELSE IF rule_matches(rs[n], description) THEN rs[n].category
    ELSE first_match(description, rs, n + 1)

RECURSIVE last_match(_, _, _)
last_match(description, rs, n) ==
    IF n = 0 THEN fallback_category
    ELSE IF rule_matches(rs[n], description) THEN rs[n].category
    ELSE last_match(description, rs, n - 1)
classify_last(description, rs) == last_match(description, rs, Len(rs))

\* The category of one description: the first matching rule's, else the fallback.
classify(description, rs) == first_match(description, rs, 1)

\* utils.category_mapper.apply_category_mapping(df, desc_col): adds the
\* category column, one value per row from that row's description.
apply_category_mapping(fr, dc) ==
    SetColumn(fr, n_category,
        [r \in 1..Len(fr.rows) |-> Text(<<classify(Column(fr, dc)[r], rules)>>)])

Classify ==
    /\ pc = "month"
    /\ df_processed' = apply_category_mapping(df_processed, desc_col)
    /\ pc' = "classified"
    /\ UNCHANGED <<uploaded_file, ui, df, selVars, message, repVars, columns, role, guessed, decVars>>

RECURSIVE SumSeq(_)
SumSeq(s) == IF s = <<>> THEN 0 ELSE s[1] + SumSeq(Tail(s))

\* Series.sum() of the amount column over the rows at positions R
RECURSIVE SumRows(_, _)
SumRows(fr, R) ==
    IF R = {} THEN 0
    ELSE LET r == CHOOSE x \in R : TRUE
         IN  Column(fr, n_amount)[r].n + SumRows(fr, R \ {r})

AllRows(fr) == 1..Len(fr.rows)
RowsWhere(fr, name, key) == {r \in AllRows(fr) : Column(fr, name)[r] = key}
Keys(fr, name) == {Column(fr, name)[r] : r \in AllRows(fr)}

\* Timestamp order
Earlier(a, b) ==
    \/ a.y < b.y
    \/ a.y = b.y /\ a.m < b.m
    \/ a.y = b.y /\ a.m = b.m /\ a.d < b.d

\* groupby("month")["amount"].sum().reset_index().sort_values("month")
RECURSIVE sorted_by_month(_)
sorted_by_month(G) ==
    IF G = {} THEN <<>>
    ELSE LET first == CHOOSE g \in G : \A h \in G \ {g} : Earlier(g.month, h.month)
         IN  <<first>> \o sorted_by_month(G \ {first})

group_by_month(fr) ==
    {[month |-> k, amount |-> SumRows(fr, RowsWhere(fr, n_month, k))] : k \in Keys(fr, n_month)}

group_by_category(fr) ==
    {[category |-> k, amount |-> SumRows(fr, RowsWhere(fr, n_category, k))] :
        k \in Keys(fr, n_category)}

\* sort_values("amount", ascending=False): every order of the groups that
\* descends by amount (the order of equal amounts is not fixed by the sort).
descending_orders(G) ==
    {s \in [1..Cardinality(G) -> G] :
        /\ \A g \in G : \E i \in 1..Cardinality(G) : s[i] = g
        /\ \A i \in 1..(Cardinality(G) - 1) : s[i].amount >= s[i + 1].amount}

\* Series.mean(): the sum over the count, kept as a fraction.
mean_over_12(values) == [num |-> SumSeq(values), den |-> 12]
mean(values) == [num |-> SumSeq(values), den |-> Len(values)]

fill_value == 0

\* pd.pivot_table(index="month", columns="category", values="amount",
\*                aggfunc="sum", fill_value=0)
pivot_table_by_month(fr) ==
    [k \in Keys(fr, n_month) \X Keys(fr, n_category) |->
        SumRows(fr, RowsWhere(fr, n_month, k[1]))]
pivot_table(fr) ==
    [k \in Keys(fr, n_month) \X Keys(fr, n_category) |->
        LET R == RowsWhere(fr, n_month, k[1]) \cap RowsWhere(fr, n_category, k[2])
        IN  IF R = {} THEN fill_value ELSE SumRows(fr, R)]

\* Section 5 of main(): the totals, the two tables, the mean and the pivot.
Aggregate ==
    /\ pc = "classified"
    /\ total_spent' = SumRows(df_processed, AllRows(df_processed))
    /\ monthly_stats' = sorted_by_month(group_by_month(df_processed))
    /\ category_stats' \in descending_orders(group_by_category(df_processed))
    /\ avg_monthly' = mean([i \in 1..Len(monthly_stats') |-> monthly_stats'[i].amount])
    /\ pivot' = pivot_table(df_processed)
    /\ pc' = "reported"
    /\ UNCHANGED <<uploaded_file, ui, df, selVars, df_processed, message, columns, role, guessed, decVars>>

----------------------------------------------------------------------------
(* file_loader.py: load_expense_csv *)

date_candidates   == <<n_date, k_naljja, k_ilja>>
desc_candidates   == <<n_description, k_naeyong, k_memo>>
amount_candidates == <<n_amount, k_geumaek>>

\* No column found: Python's None for date_col / desc_col / amount_col.
NoColumn == <<>>

\* for c in candidates: if c in df.columns: col = c; break
RECURSIVE find_from(_, _, _)
find_from(candidates, fr, n) ==
    IF n > Len(candidates) THEN NoColumn
    ELSE IF HasColumn(fr, candidates[n]) THEN candidates[n]
    ELSE find_from(candidates, fr, n + 1)

\* A search that takes the first column, in table order, that is a candidate.
find_first_column(candidates, fr) ==
    LET hit == {i \in 1..Len(fr.columns) : fr.columns[i] \in Range(candidates)}
    IN  IF hit = {} THEN NoColumn
        ELSE fr.columns[CHOOSE i \in hit : \A j \in hit : i <= j]

find_col(candidates, fr) == find_from(candidates, fr, 1)

\* raise ValueError(f"... {candidates}")
ValueError(which, candidates) == [kind |-> which, names |-> candidates]

\* df.rename(columns={date_col: "date", desc_col: "description", amount_col: "amount"})
rename(fr, dc, sc, ac) ==
    [fr EXCEPT !.columns = [i \in 1..Len(fr.columns) |->
        CASE fr.columns[i] = dc -> n_date
          [] fr.columns[i] = sc -> n_description
          [] fr.columns[i] = ac -> n_amount
          [] OTHER -> fr.columns[i]]]

\* Lines 82-94: both columns converted in place, rows missing either dropped,
\* the three columns renamed.
loaded(fr, dc, sc, ac) ==
    LET p1 == SetColumn(fr, dc, to_datetime(Column(fr, dc), ""))
        p2 == SetColumn(p1, ac, to_numeric(Column(p1, ac)))
    IN  rename(dropna(p2, {dc, ac}), dc, sc, ac)

LoadUnchanged == <<uploaded_file, ui, manual_format, repVars, columns, role, guessed, decVars>>

\* df = _read_csv_with_multiple_encodings(file) raises: no candidate decodes.
L_ReadRaises ==
    /\ pc = "call" /\ uploaded_file.kind = "undecodable"
    /\ message' = Msg("UnicodeDecodeError")
    /\ pc' = "raised"
    /\ UNCHANGED <<df, date_col, desc_col, amount_col, df_processed, LoadUnchanged>>

L_Read ==
    /\ pc = "call" /\ uploaded_file.kind = "csv"
    /\ df' = uploaded_file.df
    /\ pc' = "find_date"
    /\ UNCHANGED <<date_col, desc_col, amount_col, df_processed, message, LoadUnchanged>>

L_DateMissing ==
    /\ pc = "find_date" /\ find_col(date_candidates, df) = NoColumn
    /\ message' = ValueError("ValueError_date", date_candidates)
    /\ pc' = "raised"
    /\ UNCHANGED <<df, date_col, desc_col, amount_col, df_processed, LoadUnchanged>>

L_DateFound ==
    /\ pc = "find_date" /\ find_col(date_candidates, df) # NoColumn
    /\ date_col' = find_col(date_candidates, df)
    /\ pc' = "find_desc"
    /\ UNCHANGED <<df, desc_col, amount_col, df_processed, message, LoadUnchanged>>

L_DescMissing ==
    /\ pc = "find_desc" /\ find_col(desc_candidates, df) = NoColumn
    /\ message' = ValueError("ValueError_description", desc_candidates)
    /\ pc' = "raised"
    /\ UNCHANGED <<df, date_col, desc_col, amount_col, df_processed, LoadUnchanged>>

L_DescFound ==
    /\ pc = "find_desc" /\ find_col(desc_candidates, df) # NoColumn
    /\ desc_col' = find_col(desc_candidates, df)
    /\ pc' = "find_amount"
    /\ UNCHANGED <<df, date_col, amount_col, df_processed, message, LoadUnchanged>>

L_AmountMissing ==
    /\ pc = "find_amount" /\ find_col(amount_candidates, df) = NoColumn
    /\ message' = ValueError("ValueError_amount", amount_candidates)
    /\ pc' = "raised"
    /\ UNCHANGED <<df, date_col, desc_col, amount_col, df_processed, LoadUnchanged>>

L_AmountFound ==
    /\ pc = "find_amount" /\ find_col(amount_candidates, df) # NoColumn
    /\ amount_col' = find_col(amount_candidates, df)
    /\ pc' = "convert"
    /\ UNCHANGED <<df, date_col, desc_col, df_processed, message, LoadUnchanged>>

\* Type conversion, dropna, rename, return df.
L_Convert ==
    /\ pc = "convert"
    /\ df_processed' = loaded(df, date_col, desc_col, amount_col)
    /\ pc' = "returned"
    /\ UNCHANGED <<df, date_col, desc_col, amount_col, message, LoadUnchanged>>

----------------------------------------------------------------------------
(* Inputs *)

t_abc       == <<"a", "b", "c">>
t_taxi      == <<"t", "a", "x", "i">>
t_starbucks == <<"S", "t", "a", "r", "b", "u", "c", "k", "s", " ", "L", "a", "t", "t", "e">>
t_buckle    == <<"b", "u", "c", "k", "l", "e">>

Formats == {"", " ", "%Y-%m-%d", "%d/%m/%Y"}

\* Tables of n rows over the column list cols whose rows come from Rows.
Tables(cols, Rows, n) ==
    {Frame(cols, [i \in 1..Len(rs) |-> i], rs) : rs \in SeqsUpTo(Rows, n)}

\* Uploads for the normalisation runs: a date-like, an amount-like and a text
\* cell per row; the second column is named amount or price.
MainRows ==
    {<<a, b, Text(t_taxi)>> :
        a \in {IsoText(2024, 1, 5), IsoText(2024, 2, 3), Text(t_abc)},
        b \in {Num(100), Num(50), Text(t_abc)}}
MainTables ==
    Tables(<<n_date, n_amount, n_memo>>, MainRows, MaxRows)
        \cup Tables(<<n_date, n_price, n_memo>>, MainRows, MaxRows)

\* Uploads for the report runs: well-formed rows over two years, equal and
\* different amounts, descriptions of each category, and one malformed row.
ReportRows ==
    {<<a, b[1], b[2]>> :
        a \in {IsoText(2024, 1, 5), IsoText(2024, 1, 17), IsoText(2024, 2, 3), IsoText(2025, 1, 9)},
        b \in {<<Num(100), Text(t_starbucks)>>, <<Num(50), Text(t_buckle)>>, <<Num(50), NaN>>}}
    \cup {<<IsoText(2024, 1, 5), Text(t_abc), Text(<<>>)>>}
ReportTables == Tables(<<n_date, n_amount, k_memo>>, ReportRows, MaxRecords)

\* Tables for load_expense_csv: any distinct column names of the pool; a row
\* is well-formed, or has a bad date, or a bad amount, in the columns whose
\* names look like dates and amounts.
LoadPool == {n_date, k_naljja, n_description, k_memo, n_amount, k_geumaek, n_Date}
LoadCell(name, kind) ==
    IF name \in {n_date, k_naljja, k_ilja, n_Date}
    THEN (IF kind = "bad_date" THEN Text(t_abc) ELSE IsoText(2024, 1, 5))
    ELSE IF name \in {n_amount, k_geumaek}
    THEN (IF kind = "bad_amount" THEN Text(t_abc) ELSE Num(100))
    ELSE Text(t_taxi)
LoadTables ==
    {Frame(cols, [i \in 1..Len(ks) |-> i],
           [i \in 1..Len(ks) |-> [j \in 1..Len(cols) |-> LoadCell(cols[j], ks[i])]]) :
        cols \in {s \in SeqsUpTo(LoadPool, MaxCols) : s # <<>> /\ Distinct(s)},
        ks \in SeqsUpTo({"good", "bad_date", "bad_amount"}, MaxLoadRows)}

Upload(kind, t) == [kind |-> kind, df |-> t]

----------------------------------------------------------------------------
(* Specifications *)

DecIdle ==
    /\ file = [bytes |-> <<>>, pos |-> 0] /\ dpc = "idle" /\ enc_i = 1
    /\ last_error = NoError /\ attempts = <<>>
    /\ dresult = [kind |-> "none", df |-> NoTable, last |-> NoError]

ResIdle == columns = <<>> /\ role = "none" /\ guessed = <<>>

MainLocalsInit ==
    /\ df = None /\ df_processed = None
    /\ date_col = NoColumn /\ amount_col = NoColumn /\ desc_col = NoColumn
    /\ manual_format = ""
    /\ message = NoMessage
    /\ total_spent = 0 /\ monthly_stats = <<>> /\ category_stats = <<>>
    /\ avg_monthly = [num |-> 0, den |-> 0]
    /\ pivot = <<>>

NoInput == [date_col |-> UseDefault, amount_col |-> UseDefault,
            desc_col |-> UseDefault, manual_format |-> ""]

MainIdle ==
    /\ pc = "idle" /\ uploaded_file = Upload("none", None) /\ ui = NoInput
    /\ MainLocalsInit

InitDecode ==
    /\ file \in [bytes : SeqsUpTo(ByteClass, MaxBytes), pos : {0}]
    /\ dpc = "loop"
    /\ enc_i = 1
    /\ last_error = NoError
    /\ attempts = <<>>
    /\ dresult = [kind |-> "none", df |-> NoTable, last |-> NoError]
    /\ ResIdle /\ MainIdle

NextDecode == AttemptOk \/ AttemptDecodeError \/ AttemptOtherError \/ RaiseAllFailed

SpecDecode == InitDecode /\ [][NextDecode]_vars

InitResolve ==
    /\ columns \in {s \in SeqsUpTo(ColumnPool, MaxCols) : s # <<>> /\ Distinct(s)}
    /\ role \in Roles
    /\ guessed = <<>>
    /\ DecIdle /\ MainIdle

NextResolve == GuessCol

SpecResolve == InitResolve /\ [][NextResolve]_vars

\* main() on any upload, with the selectboxes left alone or changed.
InitMain ==
    /\ uploaded_file \in
           {Upload("none", None), Upload("undecodable", None)}
               \cup {Upload("csv", t) : t \in MainTables}
    /\ ui \in [date_col : {UseDefault} \cup Range(uploaded_file.df.columns),
               amount_col : {UseDefault} \cup Range(uploaded_file.df.columns),
               desc_col : {UseDefault},
               manual_format : Formats]
    /\ pc = "start"
    /\ MainLocalsInit /\ DecIdle /\ ResIdle

NextMain ==
    \/ FileMissing \/ LoadFailed \/ SelectColumns
    \/ NormalizeEmpty \/ NormalizeOk
    \/ DeriveMonth \/ Classify \/ Aggregate

SpecMain == InitMain /\ [][NextMain]_vars

\* main() with the widgets left alone, on the report tables.
InitReport ==
    /\ uploaded_file \in
           {Upload("none", None), Upload("undecodable", None)}
               \cup {Upload("csv", t) : t \in ReportTables}
    /\ ui = NoInput
    /\ pc = "start"
    /\ MainLocalsInit /\ DecIdle /\ ResIdle

SpecReport == InitReport /\ [][NextMain]_vars

InitLoad ==
    /\ uploaded_file \in
           {Upload("undecodable", None)} \cup {Upload("csv", t) : t \in LoadTables}
    /\ ui = NoInput
    /\ pc = "call"
    /\ MainLocalsInit /\ DecIdle /\ ResIdle

NextLoad ==
    \/ L_ReadRaises \/ L_Read
    \/ L_DateMissing \/ L_DateFound
    \/ L_DescMissing \/ L_DescFound
    \/ L_AmountMissing \/ L_AmountFound
    \/ L_Convert

SpecLoad == InitLoad /\ [][NextLoad]_vars

----------------------------------------------------------------------------
(* Properties of _read_csv_with_multiple_encodings *)

CanDecode(bytes, enc) == \A i \in 1..Len(bytes) : enc \in DecodableBy(bytes[i])

FixedOrder == <<"utf-8", "utf-8-sig", "cp949", "euc-kr">>

\* Index of the first candidate that decodes the whole file, 0 if none does.
FirstDecoding ==
    LET ok == {k \in 1..4 : CanDecode(file.bytes, FixedOrder[k])}
    IN  IF ok = {} THEN 0 ELSE CHOOSE k \in ok : \A j \in ok : k <= j

\* C1: the candidates are attempted in the order utf-8, utf-8-sig, cp949,
\* euc-kr; every attempt starts at input position 0; candidate k+1 is attempted
\* only if candidates 1..k each failed with an encoding error; and once the
\* function has ended, the attempts stop at the first candidate that decodes
\* without an encoding error, whose table (the whole input under that
\* encoding) is what the function returns.
C1_OrderedAttempts ==
    /\ Len(attempts) <= 4
    /\ \A k \in 1..Len(attempts) :
          /\ attempts[k].encoding = FixedOrder[k]
          /\ attempts[k].start = 0
          /\ \A j \in 1..(k - 1) : ~CanDecode(file.bytes, FixedOrder[j])
    /\ (dpc = "done" /\ FirstDecoding # 0) => Len(attempts) = FirstDecoding
    /\ dresult.kind = "df" =>
          /\ FirstDecoding # 0
          /\ dresult.df = [encoding |-> FixedOrder[FirstDecoding], text |-> file.bytes]

C1_Witness ==
    /\ dpc = "done" /\ dresult.kind = "df"
    /\ dresult.df.encoding = "cp949" /\ Len(attempts) = 3

\* C2: the function ends in the decode error exactly when all four candidates
\* failed with an encoding error; then four attempts were made and the error
\* carries the failure of the last candidate attempted (euc-kr, at the first
\* byte it cannot decode); it is never raised when some candidate decodes.
C2_DecodeErrorIffAllFail ==
    dpc = "done" =>
        /\ (dresult.kind = "UnicodeDecodeError") <=>
               (\A k \in 1..4 : ~CanDecode(file.bytes, FixedOrder[k]))
        /\ dresult.kind = "UnicodeDecodeError" =>
               /\ Len(attempts) = 4
               /\ dresult.last.encoding = attempts[4].encoding
               /\ dresult.last.encoding = "euc-kr"
               /\ dresult.last.position \in 1..Len(file.bytes)
               /\ "euc-kr" \notin DecodableBy(file.bytes[dresult.last.position])
               /\ \A i \in 1..(dresult.last.position - 1) :
                      "euc-kr" \in DecodableBy(file.bytes[i])

C2_Witness ==
    /\ dpc = "done" /\ dresult.kind = "UnicodeDecodeError"
    /\ last_error.encoding = "euc-kr"
    /\ \E i, j \in 1..Len(file.bytes) : file.bytes[i] = "u8" /\ file.bytes[j] = "kr"

----------------------------------------------------------------------------
(* Properties of guess_col *)

Matching(cols, r) ==
    {i \in 1..Len(cols) :
        \E kw \in Range(RoleCandidates(r)) : Contains(kw, lower(cols[i]))}

\* C3: for a non-empty column list and any role, the resolver returns a member
\* of the list: the first column, in column order, whose lower-cased name
\* contains one of the role's candidate substrings, and the first column of
\* the list when no column matches.
C3_FirstMatchingColumn ==
    guessed # <<>> =>
        \E i \in 1..Len(columns) :
            /\ guessed = columns[i]
            /\ Matching(columns, role) = {} => i = 1
            /\ Matching(columns, role) # {} =>
                   /\ i \in Matching(columns, role)
                   /\ \A j \in Matching(columns, role) : i <= j

\* A later column matches an earlier candidate, and the earlier column wins.
C3_Witness ==
    /\ role = "date"
    /\ columns = <<n_price, k_georaeilja, n_Date>>
    /\ guessed = k_georaeilja

----------------------------------------------------------------------------
(* Properties of main(): normalisation *)

AfterValidCheck == {"normalized", "month", "classified", "reported"}

\* Row r of the table as read passes both coercions: its cell in the chosen
\* date column parses as a date and its cell in the chosen amount column as a
\* number.
PassesBoth(r) ==
    /\ ~isna(to_datetime(Column(df, date_col), strip(manual_format))[r])
    /\ ~isna(to_numeric(Column(df, amount_col))[r])

PassingRows == {r \in 1..Len(df.rows) : PassesBoth(r)}

NormalizationDone ==
    \/ pc \in AfterValidCheck
    \/ pc = "returned" /\ message = Msg("error_no_valid_data")

\* C4: after normalization the retained rows are exactly the rows of the
\* table as read whose date cell and amount cell both coerce, each once and in
\* file order.
C4_RetainedRowsPassBoth ==
    NormalizationDone => df_processed.index = Ascending(PassingRows)

\* C5: when no row of a decoded table passes both coercions, the run does not
\* go past the valid-data check: no month, category or report is computed.
C5_NoReportWithoutValidRow ==
    pc \in AfterValidCheck => PassingRows # {}

----------------------------------------------------------------------------
(* Properties of the classifier *)

MatchingRules(description) ==
    {n \in 1..Len(rules) :
        /\ description.t = "str"
        /\ Contains(lower(rules[n].keyword), lower(description.s))}

ExpectedCategory(description) ==
    IF MatchingRules(description) = {} THEN "uncategorized"
    ELSE rules[CHOOSE n \in MatchingRules(description) :
                   \A k \in MatchingRules(description) : n <= k].category

\* C6: once classified, every retained record has exactly one category: that
\* of the first rule, in rule order, whose keyword occurs in the description
\* ignoring case, and the fallback category when no rule matches or the
\* description is empty or missing; it depends on that record's description
\* alone.
C6_FirstRuleWins ==
    pc \in {"classified", "reported"} =>
        /\ Len(Column(df_processed, n_category)) = Len(df_processed.rows)
        /\ \A r \in 1..Len(df_processed.rows) :
               Column(df_processed, n_category)[r] =
                   Text(<<ExpectedCategory(Column(df_processed, desc_col)[r])>>)
        /\ \A r, q \in 1..Len(df_processed.rows) :
               Column(df_processed, desc_col)[r] = Column(df_processed, desc_col)[q]
                   => Column(df_processed, n_category)[r] = Column(df_processed, n_category)[q]

\* A description both rules match gets the first rule's category, beside a
\* missing description that gets the fallback.
C6_Witness ==
    /\ pc = "classified"
    /\ \E r, q \in 1..Len(df_processed.rows) :
          /\ Column(df_processed, desc_col)[r] = Text(t_starbucks)
          /\ Cardinality(MatchingRules(Text(t_starbucks))) = 2
          /\ Column(df_processed, n_category)[r] = Text(<<"Food">>)
          /\ Column(df_processed, desc_col)[q] = NaN
          /\ Column(df_processed, n_category)[q] = Text(<<"uncategorized">>)

----------------------------------------------------------------------------
(* Properties of the report *)

Recs == 1..Len(df_processed.rows)
DateOf(r)   == Column(df_processed, n_date)[r]
AmountOf(r) == Column(df_processed, n_amount)[r].n
CategoryOf(r) == Column(df_processed, n_category)[r]

RECURSIVE Total(_)
Total(R) == IF R = {} THEN 0
            ELSE LET r == CHOOSE x \in R : TRUE IN AmountOf(r) + Total(R \ {r})

MonthsPresent == {<<DateOf(r).y, DateOf(r).m>> : r \in Recs}
CategoriesPresent == {CategoryOf(r) : r \in Recs}
InMonth(ym) == {r \in Recs : DateOf(r).y = ym[1] /\ DateOf(r).m = ym[2]}
InCategory(c) == {r \in Recs : CategoryOf(r) = c}

\* C7: monthly_stats has exactly one entry per calendar month (year, month)
\* among the records' dates, keyed by the first day of that month, valued the
\* sum of that month's amounts, in ascending month order; category_stats has
\* exactly one entry per category among the records, valued the sum of that
\* category's amounts, in descending order of amount, so its first entry is a
\* category of maximal total.
C7_MonthlyAndCategoryTotals ==
    pc = "reported" =>
        /\ Len(monthly_stats) = Cardinality(MonthsPresent)
        /\ \A ym \in MonthsPresent : \E i \in 1..Len(monthly_stats) :
               /\ monthly_stats[i].month = Ts(ym[1], ym[2], 1)
               /\ monthly_stats[i].amount = Total(InMonth(ym))
        /\ \A i, j \in 1..Len(monthly_stats) :
               i < j => Earlier(monthly_stats[i].month, monthly_stats[j].month)
        /\ Len(category_stats) = Cardinality(CategoriesPresent)
        /\ \A c \in CategoriesPresent : \E i \in 1..Len(category_stats) :
               /\ category_stats[i].category = c
               /\ category_stats[i].amount = Total(InCategory(c))
        /\ \A i, j \in 1..Len(category_stats) :
               i < j => category_stats[i].amount >= category_stats[j].amount
        /\ \A c \in CategoriesPresent : category_stats[1].amount >= Total(InCategory(c))

\* Two records in January 2024, one in January 2025: two months, the first
\* summing two amounts, and two categories of different totals.
C7_Witness ==
    /\ pc = "reported"
    /\ Len(df_processed.rows) = 3
    /\ monthly_stats = <<[month |-> Ts(2024, 1, 1), amount |-> 200],
                         [month |-> Ts(2025, 1, 1), amount |-> 50]>>
    /\ Len(category_stats) = 2
    /\ category_stats[1].amount = 200 /\ category_stats[2].amount = 50

\* C8: for every month and every category occurring in the records, the pivot
\* holds the sum of the amounts of the records of that month and category,
\* and 0 when there is none.
C8_PivotSums ==
    pc = "reported" =>
        \A ym \in MonthsPresent : \A c \in CategoriesPresent :
            /\ <<Ts(ym[1], ym[2], 1), c>> \in DOMAIN pivot
            /\ pivot[<<Ts(ym[1], ym[2], 1), c>>] = Total(InMonth(ym) \cap InCategory(c))
            /\ InMonth(ym) \cap InCategory(c) = {} => pivot[<<Ts(ym[1], ym[2], 1), c>>] = 0

\* Three records over two months and two categories: (Jan, Food) 100,
\* (Jan, Shopping) 50, (Feb, Food) 100 and no record for (Feb, Shopping).
C8_Witness ==
    /\ pc = "reported"
    /\ Len(df_processed.rows) = 3
    /\ DOMAIN pivot = {Ts(2024, 1, 1), Ts(2024, 2, 1)} \X {Text(<<"Food">>), Text(<<"Shopping">>)}
    /\ pivot[<<Ts(2024, 1, 1), Text(<<"Food">>)>>] = 100
    /\ pivot[<<Ts(2024, 1, 1), Text(<<"Shopping">>)>>] = 50
    /\ pivot[<<Ts(2024, 2, 1), Text(<<"Food">>)>>] = 100
    /\ pivot[<<Ts(2024, 2, 1), Text(<<"Shopping">>)>>] = 0

\* C9: avg_monthly is the sum of the monthly totals over the number of
\* months present, and that sum is total_spent, the sum of all retained
\* amounts: the divisor is neither the record count nor 12.
C9_MeanOfMonthlySums ==
    pc = "reported" =>
        /\ avg_monthly.den = Cardinality(MonthsPresent)
        /\ avg_monthly.den = Len(monthly_stats)
        /\ avg_monthly.num = SumSeq([i \in 1..Len(monthly_stats) |-> monthly_stats[i].amount])
        /\ avg_monthly.num = total_spent
        /\ total_spent = Total(Recs)

\* Three records in two months: 250 over 2, not over 3.
C9_Witness ==
    /\ pc = "reported"
    /\ Len(df_processed.rows) = 3
    /\ total_spent = 250
    /\ avg_monthly = [num |-> 250, den |-> 2]

----------------------------------------------------------------------------
(* Properties of load_expense_csv *)

InTable(name) == \E i \in 1..Len(df.columns) : df.columns[i] = name

\* The first name of the list, in list order, that is a column; <<>> if none.
FirstCandidate(names) ==
    LET hit == {n \in 1..Len(names) : InTable(names[n])}
    IN  IF hit = {} THEN <<>> ELSE names[CHOOSE n \in hit : \A k \in hit : n <= k]

DateNames   == <<n_date, k_naljja, k_ilja>>
DescNames   == <<n_description, k_naeyong, k_memo>>
AmountNames == <<n_amount, k_geumaek>>

LoadEnded == pc \in {"raised", "returned"} /\ uploaded_file.kind = "csv"

\* C10: each role is resolved to the first name of its candidate list that is
\* exactly a column name; a role with no such column makes the function fail
\* with an error naming that role's candidates and return no table, the roles
\* being tried in the order date, description, amount; only when all three are
\* resolved are the columns converted, the rows dropped and the columns
\* renamed to date, description, amount.
C10_MissingColumnErrors ==
    /\ date_col # <<>> => date_col = FirstCandidate(DateNames)
    /\ desc_col # <<>> => desc_col = FirstCandidate(DescNames)
    /\ amount_col # <<>> => amount_col = FirstCandidate(AmountNames)
    /\ df_processed # None =>
          /\ pc = "returned"
          /\ FirstCandidate(DateNames) # <<>>
          /\ FirstCandidate(DescNames) # <<>>
          /\ FirstCandidate(AmountNames) # <<>>
    /\ LoadEnded =>
          IF FirstCandidate(DateNames) = <<>>
          THEN /\ pc = "raised" /\ message = [kind |-> "ValueError_date", names |-> DateNames]
               /\ df_processed = None
          ELSE IF FirstCandidate(DescNames) = <<>>
          THEN /\ pc = "raised"
               /\ message = [kind |-> "ValueError_description", names |-> DescNames]
               /\ df_processed = None
          ELSE IF FirstCandidate(AmountNames) = <<>>
          THEN /\ pc = "raised"
               /\ message = [kind |-> "ValueError_amount", names |-> AmountNames]
               /\ df_processed = None
          ELSE /\ pc = "returned" /\ message = NoMessage
               /\ date_col = FirstCandidate(DateNames)
               /\ desc_col = FirstCandidate(DescNames)
               /\ amount_col = FirstCandidate(AmountNames)
               /\ \A nm \in {n_date, n_description, n_amount} :
                      \E i \in 1..Len(df_processed.columns) : df_processed.columns[i] = nm
               /\ \A r \in 1..Len(df_processed.rows) :
                      /\ Column(df_processed, n_date)[r].t = "ts"
                      /\ Column(df_processed, n_amount)[r].t = "num"

\* The date is found under its second candidate although a later column is
\* named date-like; description and amount are both absent, and the error is
\* the description's.
C10_Witness ==
    /\ pc = "raised"
    /\ df.columns = <<n_Date, k_naljja>>
    /\ date_col = k_naljja
    /\ message = [kind |-> "ValueError_description", names |-> DescNames]

=============================================================================
